---------------------------- MODULE Spec2Model ----------------------------
(***************************************************************************)
(* Flash-deal cart reservation: the Redis reservation store                *)
(* (RedisService), the cart coordinator (CartService), the product ledger  *)
(* (ProductService) and the checkout coordinator (CheckoutService).        *)
(*                                                                         *)
(* Every `await` of the JavaScript code is a suspension point: one action  *)
(* of the model is one round trip to Redis or MongoDB (a MULTI/EXEC block  *)
(* is one round trip), together with the local computation that follows it *)
(* up to the next round trip.  Requests run in the slots Procs and         *)
(* interleave at these points.  Time is discrete: Tick advances the Redis  *)
(* clock by one unit and removes the keys whose time to live ran out.      *)
(***************************************************************************)
EXTENDS Integers, Sequences, FiniteSets, TLC

\* ------------------------------------------------------------------ bounds
NProcs == 2          \* request slots running concurrently
MaxOps == 2          \* requests started in one behaviour of Spec
MaxSeqOps == 2       \* requests started in one behaviour of SpecSeq
MaxQty == 1          \* largest quantity of one item of a reserve request
MaxCancelQty == 2    \* largest quantity of one item of a cancel request
MaxItems == 2        \* longest reserve batch
MaxCancelItems == 1  \* longest cancel batch
MaxInitHold == 2     \* largest hold of "u1" on "s1" when the behaviour starts
Stock1 == 4          \* initial totalStock of "s1"
Stock2 == 1          \* initial totalStock of "s2"
MaxReduceOps == 3    \* direct reduceStock calls started in one behaviour
MaxReduceQty == 3    \* largest quantity of a direct reduceStock call
MaxFaultItems == 3   \* longest reserve batch when the store may fail
MaxFaultOps == 2     \* requests started in one behaviour when the store may fail

\* The TTLs of the code, in ticks of 300 seconds: RESERVATION_TTL_SECONDS
\* (600 unless configured) and the 600 of cancel/release.
ReservationTtl == 2
DefaultTtl == 2

Procs == 1..NProcs
Registered == {"u1", "u2"}            \* users for which userExists is true
UserIds == Registered \cup {"u0"}     \* "u0": no such user
Catalog == {"s1", "s2"}               \* active products
SkuIds == Catalog \cup {"sX", ""}     \* "sX": no such product, "": empty sku
InitialStock == [s \in Catalog |-> IF s = "s1" THEN Stock1 ELSE Stock2]

Keys == Registered \X Catalog         \* reservation:{userId}:{sku}

VARIABLES
  totalStock,   \* MongoDB: Product.totalStock per sku
  orders,       \* MongoDB: the Order collection, in order of creation
  res,          \* Redis: reservation:{u}:{s} -> [qty, ttl]; qty = 0: no key
  cnt,          \* Redis: reserved_stock:{s} -> [live, val, ttl]; ttl = -1: no expiry
  proc,         \* the request running in each slot, with its local variables
  ops,          \* requests started so far
  due           \* per reservation key: the ticks left of the TTL that the
                \* last reserveStock of the key gave it (an observer's clock)

vars == <<totalStock, orders, res, cnt, proc, ops, due>>

\* ------------------------------------------------------------- Redis store
NoRes == [qty |-> 0, ttl |-> 0]
NoCnt == [live |-> FALSE, val |-> 0, ttl |-> 0]

getReservationKey(userId, sku) == <<userId, sku>>
getReservedStockKey(sku) == sku

\* GET of a reservation key: the quantity, 0 for nil.
Get(r, k) == IF k \in Keys THEN r[k].qty ELSE 0
\* TTL of a reservation key: -2 when the key does not exist.
Ttl(r, k) == IF k \in Keys /\ r[k].qty > 0 THEN r[k].ttl ELSE -2
SetEx(r, k, t, v) == [r EXCEPT ![k] = [qty |-> v, ttl |-> t]]
Del(r, k) == IF k \in Keys THEN [r EXCEPT ![k] = NoRes] ELSE r
\* INCRBY creates a missing key at 0, without expiry, and keeps the expiry
\* of an existing one.
IncrBy(c, s, q) ==
  IF s \notin Catalog THEN c
  ELSE IF c[s].live THEN [c EXCEPT ![s].val = @ + q]
       ELSE [c EXCEPT ![s] = [live |-> TRUE, val |-> q, ttl |-> -1]]
DecrBy(c, s, q) == IncrBy(c, s, 0 - q)
Expire(c, s, t) ==
  IF s \in Catalog /\ c[s].live THEN [c EXCEPT ![s].ttl = t] ELSE c

\* RedisService.getReservedQuantity / getTotalReservedStock
getReservedQuantity(userId, sku) == Get(res, getReservationKey(userId, sku))
CounterOf(c, sku) == IF sku \in Catalog /\ c[sku].live THEN c[sku].val ELSE 0
getTotalReservedStock(sku) == CounterOf(cnt, sku)

\* ---------------------------------------------------------------- requests
Item(s, q) == [sku |-> s, quantity |-> q]

\* Items of a reserve request: the valid ones, and one of each invalid kind.
ReserveItemChoices ==
  {Item(s, q) : s \in Catalog, q \in 1..MaxQty}
    \cup {Item("s1", 0), Item("", 1), Item("sX", 1)}
\* quantity 0 of a cancel item: the quantity was omitted
CancelItemChoices ==
  {Item(s, q) : s \in Catalog, q \in 0..MaxCancelQty}
    \cup {Item("", 0), Item("sX", 0)}

\* The quantities a user holds and the counters, as one snapshot.
Snapshot(u) ==
  [held |-> [s \in Catalog |-> Get(res, <<u, s>>)],
   reserved |-> [s \in Catalog |-> getTotalReservedStock(s)],
   stock |-> totalStock,
   norders |-> Len(orders)]
NoSnapshot ==
  [held |-> [s \in Catalog |-> 0], reserved |-> [s \in Catalog |-> 0],
   stock |-> [s \in Catalog |-> 0], norders |-> 0]

IdleProc ==
  [op |-> "none", pc |-> "idle", user |-> "u0", items |-> <<>>, i |-> 0,
   ts |-> 0, rs |-> 0, ex |-> 0, tl |-> 0, out |-> <<>>, j |-> 0, err |-> "none",
   verr |-> {}, ret |-> 0, av |-> 0, oid |-> 0, lim |-> 0, bad |-> 0,
   obs |-> FALSE, pre |-> NoSnapshot, clean |-> TRUE]

Running(pr) == pr.pc \notin {"idle", "done"}

\* A user gate that would let every userId through.
userExistsAlways(userId) == TRUE

\* userService.userExists: an active user with this id is found.
userExists(userId) == userId \in Registered

\* A request begins.  An observed request (obs) remembers the store as it was
\* when it began (pre) and whether it ran alone since (clean): no step of
\* another request and no tick of the clock.
Begin(op, u, obs) ==
  [IdleProc EXCEPT !.op = op, !.user = u, !.obs = obs,
                   !.pre = IF obs THEN Snapshot(u) ELSE NoSnapshot]
OpsLimit(obs) == IF obs THEN MaxSeqOps ELSE MaxOps
Overlapped(pr) ==
  IF Running(pr) /\ pr.obs THEN [pr EXCEPT !.clean = FALSE] ELSE pr

\* Slot p moves to pr; every other running request has now overlapped with
\* another request's step.  A request that has returned is answered (Finish)
\* before anything else happens.
Step(p, pr) ==
  /\ \A q \in Procs : proc[q].pc # "done"
  /\ proc' = [q \in Procs |->
                IF q = p THEN pr ELSE Overlapped(proc[q])]

\* The request has returned: its locals are dead.
Return(pr, e) ==
  [pr EXCEPT !.pc = "done", !.err = e, !.i = 0, !.j = 0, !.ts = 0, !.rs = 0,
             !.ex = 0, !.tl = 0]


\* ------------------------------------------------- CartService.reserveItems
InvalidItem(item) == item.sku = "" \/ item.quantity = 0 \/ item.quantity <= 0

\* A catch block that would rethrow without compensating.
FailNoRollback(pr, e) == Return(pr, e)

\* The catch block: compensating cancels for reservedItems, then rethrow.
Fail(pr, e) ==
  IF Len(pr.out) = 0 THEN Return(pr, e)
  ELSE [pr EXCEPT !.pc = "cn_get", !.err = e, !.j = 1, !.ts = 0, !.rs = 0,
                  !.ex = 0, !.tl = 0]

\* Top of the for loop with the next item of the batch: an invalid item
\* throws.
ReserveItem(pr, item) ==
  LET at == [pr EXCEPT !.items = Append(@, item), !.i = Len(pr.items) + 1,
                       !.ts = 0, !.rs = 0, !.ex = 0]
  IN IF InvalidItem(item) THEN Fail(at, "InvalidItem")
     ELSE [at EXCEPT !.pc = "ri_product"]

\* The ways the for loop goes on after the items seen so far (pr.items): the
\* batch, an input of the call, is revealed item by item.  Past its last
\* item the call succeeds.
EnterReserveItem(pr) ==
  (IF Len(pr.items) >= 1 THEN {Return(pr, "none")} ELSE {})
    \cup (IF Len(pr.items) < pr.lim
          THEN {ReserveItem(pr, item) : item \in ReserveItemChoices} ELSE {})

\* reserveItems is called with a batch of at most n items, as one of at most
\* max requests of the behaviour.
ReserveCalled(p, u, obs, n, max) ==
  /\ proc[p].pc = "idle"
  /\ ops < max
  /\ ops' = ops + 1
  /\ LET pr == [Begin("reserve", u, obs) EXCEPT !.lim = n]
     IN IF ~userExists(u) THEN Step(p, Return(pr, "UserNotFound"))
        ELSE \E nx \in EnterReserveItem(pr) : Step(p, nx)
  /\ UNCHANGED <<totalStock, orders, res, cnt, due>>

StartReserve(p, u, obs) == ReserveCalled(p, u, obs, MaxItems, OpsLimit(obs))

\* checkStockAvailability, first read: getProductBySku.
RiProduct(p) ==
  LET pr == proc[p]
      sku == pr.items[pr.i].sku
  IN /\ pr.pc = "ri_product"
     /\ Step(p, IF sku \notin Catalog THEN Fail(pr, "ProductNotFound")
                ELSE [pr EXCEPT !.pc = "ri_counter", !.ts = totalStock[sku]])
     /\ UNCHANGED <<totalStock, orders, res, cnt, ops, due>>

\* The admission decision of checkStockAvailability, on the unclamped
\* difference.
isAvailable(stock, reservedStock, quantity) == stock - reservedStock >= quantity

\* An availableStock that would report the difference as it is.
availableStockUnclamped(stock, reservedStock) == stock - reservedStock

availableStock(stock, reservedStock) ==
  IF stock - reservedStock > 0 THEN stock - reservedStock ELSE 0

\* checkStockAvailability, second read: getTotalReservedStock; then the test
\* of reserveItems, whose error message carries availableStock (av).
StockChecked(pr, item, reservedStock) ==
  IF isAvailable(pr.ts, reservedStock, item.quantity)
  THEN [pr EXCEPT !.pc = "rs_get", !.rs = reservedStock]
  ELSE Fail([pr EXCEPT !.av = availableStock(pr.ts, reservedStock)], "InsufficientStock")

RiCounter(p) ==
  LET pr == proc[p]
      item == pr.items[pr.i]
  IN /\ pr.pc = "ri_counter"
     /\ Step(p, StockChecked(pr, item, getTotalReservedStock(item.sku)))
     /\ UNCHANGED <<totalStock, orders, res, cnt, ops, due>>

\* ----------------------------------------------- RedisService.reserveStock
\* client.get(reservationKey)
RsGet(p) ==
  LET pr == proc[p]
      key == getReservationKey(pr.user, pr.items[pr.i].sku)
  IN /\ pr.pc = "rs_get"
     /\ Step(p, [pr EXCEPT !.pc = "rs_exec", !.ex = Get(res, key)])
     /\ UNCHANGED <<totalStock, orders, res, cnt, ops, due>>

\* A reserveStock that would replace the quantity held instead of adding to
\* it.
ReserveResOverwrite(r, key, existingQty, quantity, ttl) ==
  SetEx(r, key, ttl, quantity)

\* A reserveStock that would keep the expiry of an entry it adds to.
ReserveResKeepTtl(r, key, existingQty, quantity, ttl) ==
  SetEx(r, key, IF existingQty > 0 /\ r[key].qty > 0 THEN r[key].ttl ELSE ttl,
        existingQty + quantity)

\* The MULTI block of reserveStock: setEx, incrBy, expire.
ReserveRes(r, key, existingQty, quantity, ttl) ==
  SetEx(r, key, ttl, existingQty + quantity)

\* A reserveStock that would not count the item in the aggregate counter.
ReserveCntNotCounted(c, sku, quantity, ttl) == c

ReserveCnt(c, sku, quantity, ttl) == Expire(IncrBy(c, sku, quantity), sku, ttl)

RsExec(p) ==
  LET pr == proc[p]
      item == pr.items[pr.i]
      key == getReservationKey(pr.user, item.sku)
  IN /\ pr.pc = "rs_exec"
     /\ res' = ReserveRes(res, key, pr.ex, item.quantity, ReservationTtl)
     /\ cnt' = ReserveCnt(cnt, getReservedStockKey(item.sku), item.quantity, ReservationTtl)
     /\ due' = [due EXCEPT ![key] = ReservationTtl]
     /\ \E nx \in EnterReserveItem([pr EXCEPT !.out = Append(@, item)]) : Step(p, nx)
     /\ UNCHANGED <<totalStock, orders, ops>>

\* -------------------------------------------- CartService.cancelReservation
CancelItem(pr, item) ==
  LET at == [pr EXCEPT !.items = Append(@, item), !.i = Len(pr.items) + 1,
                       !.ex = 0, !.tl = 0]
  IN IF item.sku = "" THEN Return(at, "SkuRequired")
     ELSE [at EXCEPT !.pc = "cn_get"]

\* The for loop of cartService.cancelReservation, its items revealed one by
\* one as in EnterReserveItem.
EnterCancelItem(pr) ==
  (IF Len(pr.items) >= 1 THEN {Return(pr, "none")} ELSE {})
    \cup (IF Len(pr.items) < MaxCancelItems
          THEN {CancelItem(pr, item) : item \in CancelItemChoices} ELSE {})

StartCancel(p, u, obs) ==
  /\ proc[p].pc = "idle"
  /\ ops < OpsLimit(obs)
  /\ ops' = ops + 1
  /\ LET pr == Begin("cancel", u, obs)
     IN IF ~userExists(u) THEN Step(p, Return(pr, "UserNotFound"))
        ELSE \E nx \in EnterCancelItem(pr) : Step(p, nx)
  /\ UNCHANGED <<totalStock, orders, res, cnt, due>>

\* ------------------------------------------ RedisService.cancelReservation
\* Its arguments: from the rollback of reserveItems (the reserved item, with
\* its quantity) or from cartService.cancelReservation (quantity || null,
\* null being 0 here).
CancelArg(pr) == IF pr.op = "reserve" THEN pr.out[pr.j] ELSE pr.items[pr.i]

\* A cancelQty that would not clamp the quantity asked to the quantity held.
cancelQtyUnclamped(quantity, existingQty) ==
  IF quantity # 0 THEN quantity ELSE existingQty

cancelQty(quantity, existingQty) ==
  IF quantity # 0 THEN (IF quantity < existingQty THEN quantity ELSE existingQty)
  ELSE existingQty

\* redisService.cancelReservation returned c: the ways the caller goes on.
AfterCancel(pr, c) ==
  IF pr.op = "reserve"
  THEN IF pr.j >= Len(pr.out) THEN {[Return(pr, pr.err) EXCEPT !.ret = c]}
       ELSE {[pr EXCEPT !.pc = "cn_get", !.j = @ + 1, !.ex = 0, !.tl = 0, !.ret = c]}
  ELSE EnterCancelItem(
         [pr EXCEPT !.ret = c,
                    !.out = IF c > 0 THEN Append(@, Item(pr.items[pr.i].sku, c)) ELSE @])

\* A cancelReservation that would not test the value read, and go on to the
\* MULTI block with nothing held.
CancelReadUnchecked(pr, arg, existingQty) ==
  {[pr EXCEPT !.pc = "cn_exec", !.ex = existingQty]}

\* After client.get(reservationKey) read existingQty: nothing held, return 0;
\* a remainder, read the TTL first; else the MULTI block.
CancelRead(pr, arg, existingQty) ==
  IF existingQty = 0 THEN AfterCancel(pr, 0)
  ELSE IF existingQty - cancelQty(arg.quantity, existingQty) > 0
  THEN {[pr EXCEPT !.pc = "cn_ttl", !.ex = existingQty]}
  ELSE {[pr EXCEPT !.pc = "cn_exec", !.ex = existingQty]}

\* client.get(reservationKey)
CnGet(p) ==
  LET pr == proc[p]
      arg == CancelArg(pr)
      existingQty == Get(res, getReservationKey(pr.user, arg.sku))
  IN /\ pr.pc = "cn_get"
     /\ \E nx \in CancelRead(pr, arg, existingQty) : Step(p, nx)
     /\ UNCHANGED <<totalStock, orders, res, cnt, ops, due>>

\* client.ttl(reservationKey), a round trip of its own before the EXEC
CnTtl(p) ==
  LET pr == proc[p]
      arg == CancelArg(pr)
  IN /\ pr.pc = "cn_ttl"
     /\ Step(p, [pr EXCEPT !.pc = "cn_exec",
                           !.tl = Ttl(res, getReservationKey(pr.user, arg.sku))])
     /\ UNCHANGED <<totalStock, orders, res, cnt, ops, due>>

\* A cancelReservation that would write the remainder with the TTL it read,
\* whatever it is.
ShrinkResNoDefault(r, key, remainingQty, ttl) ==
  IF remainingQty > 0 THEN SetEx(r, key, ttl, remainingQty) ELSE Del(r, key)

\* The MULTI block of cancelReservation: setEx with the TTL read (600 when it
\* was not positive) or del, then decrBy.
ShrinkRes(r, key, remainingQty, ttl) ==
  IF remainingQty > 0
  THEN SetEx(r, key, IF ttl > 0 THEN ttl ELSE DefaultTtl, remainingQty)
  ELSE Del(r, key)

CnExec(p) ==
  LET pr == proc[p]
      arg == CancelArg(pr)
      c == cancelQty(arg.quantity, pr.ex)
  IN /\ pr.pc = "cn_exec"
     /\ res' = ShrinkRes(res, getReservationKey(pr.user, arg.sku), pr.ex - c, pr.tl)
     /\ cnt' = DecrBy(cnt, getReservedStockKey(arg.sku), c)
     /\ \E nx \in AfterCancel(pr, c) : Step(p, nx)
     /\ UNCHANGED <<totalStock, orders, ops, due>>

\* ------------------------------------------ CheckoutService.processCheckout
StartCheckout(p, u, obs) ==
  /\ proc[p].pc = "idle"
  /\ ops < OpsLimit(obs)
  /\ ops' = ops + 1
  /\ LET pr == Begin("checkout", u, obs)
     IN Step(p, IF ~userExists(u) THEN Return(pr, "UserNotFound")
                ELSE [pr EXCEPT !.pc = "co_keys"])
  /\ UNCHANGED <<totalStock, orders, res, cnt, due>>

\* The orders in which KEYS may list the skus of S.
Orderings(S) ==
  {f \in [1..Cardinality(S) -> S] : \A a, b \in 1..Cardinality(S) : f[a] = f[b] => a = b}

\* A checkout that would answer an empty cart with success.
CartLoadedNoError(pr) ==
  IF Len(pr.out) = 0 THEN Return(pr, "none")
  ELSE [pr EXCEPT !.pc = "co_vres", !.i = 1]

\* getUserCart, after the last GET of getUserReservations: every sku of the
\* model's catalog is an active product, so the cart is the reservations.
CartLoaded(pr) ==
  IF Len(pr.out) = 0 THEN Return(pr, "EmptyCart")
  ELSE [pr EXCEPT !.pc = "co_vres", !.i = 1]

\* getUserReservations: client.keys("reservation:{userId}:*")
CoKeys(p) ==
  LET pr == proc[p]
      live == {s \in Catalog : Get(res, getReservationKey(pr.user, s)) > 0}
  IN /\ pr.pc = "co_keys"
     /\ \E f \in Orderings(live) :
          Step(p, IF live = {} THEN CartLoaded(pr)
                  ELSE [pr EXCEPT !.pc = "co_kget", !.i = 1,
                                  !.items = [k \in 1..Cardinality(live) |-> Item(f[k], 0)]])
     /\ UNCHANGED <<totalStock, orders, res, cnt, ops, due>>

\* getUserReservations: client.get(key) of the next key; a key that expired
\* since KEYS is skipped.
CoKGet(p) ==
  LET pr == proc[p]
      sku == pr.items[pr.i].sku
      quantity == Get(res, getReservationKey(pr.user, sku))
      got == [pr EXCEPT !.out = IF quantity > 0 THEN Append(@, Item(sku, quantity)) ELSE @]
  IN /\ pr.pc = "co_kget"
     /\ Step(p, IF pr.i >= Len(pr.items) THEN CartLoaded(got)
                ELSE [got EXCEPT !.i = @ + 1])
     /\ UNCHANGED <<totalStock, orders, res, cnt, ops, due>>

\* The quantity mismatch of cart item i, if any, is recorded.
ReservedSeen(pr, item, reservedQty) ==
  [pr EXCEPT !.pc = "co_vprod",
             !.verr = IF reservedQty < item.quantity THEN @ \cup {item.sku} ELSE @]

\* Validation of cart item i: getReservedQuantity
CoVRes(p) ==
  LET pr == proc[p]
      item == pr.out[pr.i]
  IN /\ pr.pc = "co_vres"
     /\ Step(p, ReservedSeen(pr, item, getReservedQuantity(pr.user, item.sku)))
     /\ UNCHANGED <<totalStock, orders, res, cnt, ops, due>>

\* Validation of cart item i: checkStockAvailability, getProductBySku
CoVProduct(p) ==
  LET pr == proc[p]
  IN /\ pr.pc = "co_vprod"
     /\ Step(p, [pr EXCEPT !.pc = "co_vcnt", !.ts = totalStock[pr.out[pr.i].sku]])
     /\ UNCHANGED <<totalStock, orders, res, cnt, ops, due>>

\* A validation that would stop at the first violating item.
ValidatedFirstError(pr, seen) ==
  IF seen.verr # {} THEN Return(seen, "CheckoutValidationFailed")
  ELSE IF pr.i < Len(pr.out) THEN [seen EXCEPT !.pc = "co_vres", !.i = @ + 1]
  ELSE [seen EXCEPT !.pc = "co_order", !.i = 0]

\* Bottom of the validation loop for cart item i; after the last item the
\* errors collected decide.
Validated(pr, seen) ==
  IF pr.i < Len(pr.out) THEN [seen EXCEPT !.pc = "co_vres", !.i = @ + 1]
  ELSE IF seen.verr # {} THEN Return(seen, "CheckoutValidationFailed")
  ELSE [seen EXCEPT !.pc = "co_order", !.i = 0]

\* The availability error of cart item i, if any, is recorded.
StockSeen(pr, item, reservedStock) ==
  [pr EXCEPT !.ts = 0,
             !.verr = IF isAvailable(pr.ts, reservedStock, item.quantity)
                      THEN @ ELSE @ \cup {item.sku}]

\* Validation of cart item i: checkStockAvailability, getTotalReservedStock
CoVCounter(p) ==
  LET pr == proc[p]
      item == pr.out[pr.i]
      seen == StockSeen(pr, item, getTotalReservedStock(item.sku))
  IN /\ pr.pc = "co_vcnt"
     /\ Step(p, Validated(pr, seen))
     /\ UNCHANGED <<totalStock, orders, res, cnt, ops, due>>

\* An order that would be saved as pending.
NewOrderPending(pr) == [userId |-> pr.user, items |-> pr.out, status |-> "pending"]

\* order.save(); order._id (oid) is the position of the order in the
\* collection.
NewOrder(pr) == [userId |-> pr.user, items |-> pr.out, status |-> "completed"]

\* A checkout that would go on to the stock reductions without having saved
\* its order.
CoOrderNotSaved(p) ==
  LET pr == proc[p]
  IN /\ pr.pc = "co_order"
     /\ Step(p, [pr EXCEPT !.pc = "rd_read", !.i = 1, !.oid = Len(orders) + 1])
     /\ UNCHANGED <<totalStock, orders, res, cnt, ops, due>>

CoOrder(p) ==
  LET pr == proc[p]
  IN /\ pr.pc = "co_order"
     /\ orders' = Append(orders, NewOrder(pr))
     /\ Step(p, [pr EXCEPT !.pc = "rd_read", !.i = 1, !.oid = Len(orders) + 1])
     /\ UNCHANGED <<totalStock, res, cnt, ops, due>>

\* -------------------------------------------------- ProductService.reduceStock
\* A caller invokes reduceStock(sku, quantity).
StartReduce(p, sku, quantity) ==
  /\ proc[p].pc = "idle"
  /\ ops < MaxReduceOps
  /\ ops' = ops + 1
  /\ Step(p, [Begin("reduce", "u0", FALSE) EXCEPT
                !.pc = "rd_read", !.out = <<Item(sku, quantity)>>, !.i = 1])
  /\ UNCHANGED <<totalStock, orders, res, cnt, due>>

\* getProductBySku, and the test on the document read
RdRead(p) ==
  LET pr == proc[p]
      item == pr.out[pr.i]
  IN /\ pr.pc = "rd_read"
     /\ Step(p, IF totalStock[item.sku] < item.quantity THEN Return(pr, "InsufficientStock")
                ELSE [pr EXCEPT !.pc = "rd_save", !.ts = totalStock[item.sku]])
     /\ UNCHANGED <<totalStock, orders, res, cnt, ops, due>>

\* A save that would write back the stock it read.
ReducedStockUnchanged(stock, quantity) == stock

\* product.save(): writes the value computed from the document read
ReducedStock(stock, quantity) == stock - quantity

RdSave(p) ==
  LET pr == proc[p]
      item == pr.out[pr.i]
  IN /\ pr.pc = "rd_save"
     /\ totalStock' = [totalStock EXCEPT ![item.sku] = ReducedStock(pr.ts, item.quantity)]
     /\ Step(p, IF pr.op = "reduce" THEN Return(pr, "none")
                ELSE IF pr.i < Len(pr.out) THEN [pr EXCEPT !.pc = "rd_read", !.i = @ + 1, !.ts = 0]
                ELSE [pr EXCEPT !.pc = "rl_get", !.i = 1, !.ts = 0])
     /\ UNCHANGED <<orders, res, cnt, ops, due>>

\* ------------------------------------------ RedisService.releaseReservation
\* releaseReservation returned (ok: true or false): the release loop of
\* processCheckout goes on, and returns success after the last item.
AfterRelease(pr, ok) ==
  LET got == [pr EXCEPT !.ret = IF ok THEN 1 ELSE 0, !.ex = 0, !.tl = 0]
  IN IF pr.i < Len(pr.out) THEN [got EXCEPT !.pc = "rl_get", !.i = @ + 1]
     ELSE Return(got, "none")

\* client.get(reservationKey); nothing held: return false; less held than
\* asked: throw.
RlGet(p) ==
  LET pr == proc[p]
      item == pr.out[pr.i]
      existingQty == Get(res, getReservationKey(pr.user, item.sku))
  IN /\ pr.pc = "rl_get"
     /\ Step(p, IF existingQty = 0 THEN AfterRelease(pr, FALSE)
                ELSE IF existingQty < item.quantity THEN Return(pr, "OverRelease")
                ELSE IF existingQty - item.quantity > 0
                THEN [pr EXCEPT !.pc = "rl_ttl", !.ex = existingQty]
                ELSE [pr EXCEPT !.pc = "rl_exec", !.ex = existingQty])
     /\ UNCHANGED <<totalStock, orders, res, cnt, ops, due>>

\* client.ttl(reservationKey)
RlTtl(p) ==
  LET pr == proc[p]
  IN /\ pr.pc = "rl_ttl"
     /\ Step(p, [pr EXCEPT !.pc = "rl_exec",
                           !.tl = Ttl(res, getReservationKey(pr.user, pr.out[pr.i].sku))])
     /\ UNCHANGED <<totalStock, orders, res, cnt, ops, due>>

\* The MULTI block of releaseReservation
ReleaseRes(r, key, remainingQty, ttl) ==
  IF remainingQty > 0
  THEN SetEx(r, key, IF ttl > 0 THEN ttl ELSE DefaultTtl, remainingQty)
  ELSE Del(r, key)

RlExec(p) ==
  LET pr == proc[p]
      item == pr.out[pr.i]
  IN /\ pr.pc = "rl_exec"
     /\ res' = ReleaseRes(res, getReservationKey(pr.user, item.sku),
                          pr.ex - item.quantity, pr.tl)
     /\ cnt' = DecrBy(cnt, getReservedStockKey(item.sku), item.quantity)
     /\ Step(p, AfterRelease(pr, TRUE))
     /\ UNCHANGED <<totalStock, orders, ops, due>>

\* ------------------------------------------------------------ Redis errors
\* A store access of the call threw (bad: how many did so far).
Failed(pr) == [pr EXCEPT !.bad = @ + 1]

\* getTotalReservedStock inside reserveItems: client.get throws, the catch
\* block returns 0.
RiCounterFault(p) ==
  LET pr == proc[p]
  IN /\ pr.pc = "ri_counter"
     /\ Step(p, StockChecked(Failed(pr), pr.items[pr.i], 0))
     /\ UNCHANGED <<totalStock, orders, res, cnt, ops, due>>

\* reserveStock: client.get or multi.exec throws, nothing is written; the
\* error is rethrown into the catch block of reserveItems.
RsFault(p) ==
  LET pr == proc[p]
  IN /\ pr.pc \in {"rs_get", "rs_exec"}
     /\ Step(p, Fail(Failed(pr), "StoreError"))
     /\ UNCHANGED <<totalStock, orders, res, cnt, ops, due>>

\* A rollback that would give up at the first cancel that fails and throw
\* the rollback error.
RollbackCaughtRethrow(pr) == Return(pr, "CancelFailed")

\* The inner catch of the rollback loop: the error of the cancel is logged
\* and the loop goes on; after the last item the triggering error is
\* rethrown.
RollbackCaught(pr) ==
  IF pr.j >= Len(pr.out) THEN Return(pr, pr.err)
  ELSE [pr EXCEPT !.pc = "cn_get", !.j = @ + 1, !.ex = 0, !.tl = 0]

\* redisService.cancelReservation: client.get, client.ttl or multi.exec
\* throws, nothing is written, the error is rethrown: to the rollback loop of
\* reserveItems, or through cartService.cancelReservation to its caller.
CnFault(p) ==
  LET pr == proc[p]
  IN /\ pr.pc \in {"cn_get", "cn_ttl", "cn_exec"}
     /\ Step(p, IF pr.op = "reserve" THEN RollbackCaught(Failed(pr))
                ELSE Return(Failed(pr), "CancelFailed"))
     /\ UNCHANGED <<totalStock, orders, res, cnt, ops, due>>

\* getUserReservations: client.keys or client.get throws, the catch block
\* returns []: the cart is empty.
CoKeysFault(p) ==
  LET pr == proc[p]
  IN /\ pr.pc \in {"co_keys", "co_kget"}
     /\ Step(p, CartLoaded([Failed(pr) EXCEPT !.out = <<>>]))
     /\ UNCHANGED <<totalStock, orders, res, cnt, ops, due>>

\* getReservedQuantity in the validation loop: client.get throws, the catch
\* block returns 0.
CoVResFault(p) ==
  LET pr == proc[p]
  IN /\ pr.pc = "co_vres"
     /\ Step(p, ReservedSeen(Failed(pr), pr.out[pr.i], 0))
     /\ UNCHANGED <<totalStock, orders, res, cnt, ops, due>>

\* getTotalReservedStock in the validation loop: client.get throws, the
\* catch block returns 0.
CoVCounterFault(p) ==
  LET pr == proc[p]
  IN /\ pr.pc = "co_vcnt"
     /\ Step(p, Validated(pr, StockSeen(Failed(pr), pr.out[pr.i], 0)))
     /\ UNCHANGED <<totalStock, orders, res, cnt, ops, due>>

\* releaseReservation: client.get, client.ttl or multi.exec throws, nothing
\* is written, the error is rethrown out of processCheckout.
RlFault(p) ==
  LET pr == proc[p]
  IN /\ pr.pc \in {"rl_get", "rl_ttl", "rl_exec"}
     /\ Step(p, Return(Failed(pr), "StoreError"))
     /\ UNCHANGED <<totalStock, orders, res, cnt, ops, due>>

\* ------------------------------------------------------------ Redis expiry
ExpireRes(e) == IF e.qty > 0 THEN (IF e.ttl = 1 THEN NoRes ELSE [e EXCEPT !.ttl = @ - 1]) ELSE e
ExpireCnt(e) ==
  IF e.live /\ e.ttl > 0 THEN (IF e.ttl = 1 THEN NoCnt ELSE [e EXCEPT !.ttl = @ - 1])
  ELSE e

\* One unit of time passes: every key with an expiry is one unit closer to
\* it, and is removed when it is reached.
Tick ==
  /\ \A q \in Procs : proc[q].pc # "done"
  /\ (\E k \in Keys : res[k].qty > 0) \/ (\E s \in Catalog : cnt[s].live /\ cnt[s].ttl > 0)
  /\ res' = [k \in Keys |-> ExpireRes(res[k])]
  /\ cnt' = [s \in Catalog |-> ExpireCnt(cnt[s])]
  /\ due' = [k \in Keys |-> IF due[k] > 0 THEN due[k] - 1 ELSE 0]
  /\ proc' = [q \in Procs |-> Overlapped(proc[q])]
  /\ UNCHANGED <<totalStock, orders, ops>>

\* The response was sent: the slot is free again.
Finish(p) ==
  /\ proc[p].pc = "done"
  /\ proc' = [proc EXCEPT ![p] = IdleProc]
  /\ UNCHANGED <<totalStock, orders, res, cnt, ops, due>>

\* ------------------------------------------------------------ specification
\* When the behaviour starts "u1" holds h units of "s1", just reserved by h
\* calls reserveItems("u1", [{s1, 1}]).
InitRes(h) ==
  [k \in Keys |-> IF k = <<"u1", "s1">> /\ h > 0
                  THEN [qty |-> h, ttl |-> ReservationTtl] ELSE NoRes]
InitCnt(h) ==
  [s \in Catalog |-> IF s = "s1" /\ h > 0
                     THEN [live |-> TRUE, val |-> h, ttl |-> ReservationTtl]
                     ELSE NoCnt]

Init ==
  /\ totalStock = InitialStock
  /\ orders = <<>>
  /\ \E h \in 0..MaxInitHold :
       /\ res = InitRes(h)
       /\ cnt = InitCnt(h)
       /\ due = [k \in Keys |-> InitRes(h)[k].ttl]
  /\ proc = [p \in Procs |-> IdleProc]
  /\ ops = 0

\* The steps of the requests running in the slots P.
Requests(P, obs) ==
  \/ \E p \in P, u \in UserIds : StartReserve(p, u, obs)
  \/ \E p \in P, u \in UserIds : StartCancel(p, u, obs)
  \/ \E p \in P, u \in UserIds : StartCheckout(p, u, obs)
  \/ \E p \in P : RiProduct(p)
  \/ \E p \in P : RiCounter(p)
  \/ \E p \in P : RsGet(p)
  \/ \E p \in P : RsExec(p)
  \/ \E p \in P : CnGet(p)
  \/ \E p \in P : CnTtl(p)
  \/ \E p \in P : CnExec(p)
  \/ \E p \in P : CoKeys(p)
  \/ \E p \in P : CoKGet(p)
  \/ \E p \in P : CoVRes(p)
  \/ \E p \in P : CoVProduct(p)
  \/ \E p \in P : CoVCounter(p)
  \/ \E p \in P : CoOrder(p)
  \/ \E p \in P : RdRead(p)
  \/ \E p \in P : RdSave(p)
  \/ \E p \in P : RlGet(p)
  \/ \E p \in P : RlExec(p)
  \/ \E p \in P : Finish(p)

\* Concurrent requests in all the slots, and the clock.  Only a concurrent
\* request can make a checkout release less than is held (RlTtl).
Next == Requests(Procs, FALSE) \/ (\E p \in Procs : RlTtl(p)) \/ Tick
Spec == Init /\ [][Next]_vars

\* Concurrent reserveItems calls alone (with their compensating cancels), and
\* no expiry.
NextReserve ==
  \/ \E p \in Procs, u \in UserIds : StartReserve(p, u, FALSE)
  \/ \E p \in Procs : RiProduct(p)
  \/ \E p \in Procs : RiCounter(p)
  \/ \E p \in Procs : RsGet(p)
  \/ \E p \in Procs : RsExec(p)
  \/ \E p \in Procs : CnGet(p)
  \/ \E p \in Procs : CnTtl(p)
  \/ \E p \in Procs : CnExec(p)
  \/ \E p \in Procs : Finish(p)
SpecReserve == Init /\ [][NextReserve]_vars

\* One request at a time, observed (pre, clean), and the clock.
NextSeq == Requests({1}, TRUE) \/ Tick
SpecSeq == Init /\ [][NextSeq]_vars

\* Concurrent reduceStock calls alone, as the reduction loops of concurrent
\* checkouts issue them.
NextReduce ==
  \/ \E p \in Procs, sku \in Catalog, quantity \in 1..MaxReduceQty :
       StartReduce(p, sku, quantity)
  \/ \E p \in Procs : RdRead(p)
  \/ \E p \in Procs : RdSave(p)
  \/ \E p \in Procs : Finish(p)
SpecReduce == Init /\ [][NextReduce]_vars

\* One request at a time, observed, against a store whose accesses may throw.
NextFault ==
  \/ \E u \in UserIds : ReserveCalled(1, u, TRUE, MaxFaultItems, MaxFaultOps)
  \/ \E u \in UserIds : StartCheckout(1, u, TRUE)
  \/ RiProduct(1) \/ RiCounter(1) \/ RsGet(1) \/ RsExec(1)
  \/ \E u \in UserIds : StartCancel(1, u, TRUE)
  \/ CnGet(1) \/ CnTtl(1) \/ CnExec(1)
  \/ CoKeys(1) \/ CoKGet(1) \/ CoVRes(1) \/ CoVProduct(1) \/ CoVCounter(1)
  \/ CoOrder(1) \/ RdRead(1) \/ RdSave(1) \/ RlGet(1) \/ RlExec(1)
  \/ RiCounterFault(1) \/ RsFault(1) \/ CnFault(1)
  \/ CoKeysFault(1) \/ CoVResFault(1) \/ CoVCounterFault(1) \/ RlFault(1)
  \/ Finish(1)
SpecFault == Init /\ [][NextFault]_vars

\* Concurrent cancelReservation calls and checkouts alone: no reservation is
\* made and no key expires.
NextShrink ==
  \/ \E p \in Procs, u \in UserIds : StartCancel(p, u, FALSE)
  \/ \E p \in Procs, u \in UserIds : StartCheckout(p, u, FALSE)
  \/ \E p \in Procs : CnGet(p)
  \/ \E p \in Procs : CnTtl(p)
  \/ \E p \in Procs : CnExec(p)
  \/ \E p \in Procs : CoKeys(p)
  \/ \E p \in Procs : CoKGet(p)
  \/ \E p \in Procs : CoVRes(p)
  \/ \E p \in Procs : CoVProduct(p)
  \/ \E p \in Procs : CoVCounter(p)
  \/ \E p \in Procs : CoOrder(p)
  \/ \E p \in Procs : RdRead(p)
  \/ \E p \in Procs : RdSave(p)
  \/ \E p \in Procs : RlGet(p)
  \/ \E p \in Procs : RlExec(p)
  \/ \E p \in Procs : Finish(p)
SpecShrink == Init /\ [][NextShrink]_vars

\* One request at a time and the clock, where time does not stop and every
\* response is sent.
SpecLive == SpecSeq /\ WF_vars(Tick) /\ WF_vars(Finish(1))

\* ================================================================== claims
\* The quantity all users hold of sku in the reservation entries r.
RECURSIVE HeldBy(_, _, _)
HeldBy(r, sku, U) ==
  IF U = {} THEN 0
  ELSE LET u == CHOOSE x \in U : TRUE
       IN r[<<u, sku>>].qty + HeldBy(r, sku, U \ {u})
HeldSum(r, sku) == HeldBy(r, sku, Registered)

\* This step is the EXEC of reserveStock by slot p: the reservation of its
\* current item is admitted and committed.
Admitted(p) == proc[p].pc = "rs_exec" /\ proc'[p].pc # "rs_exec"

\* C1  No overselling under concurrent reserveItems calls: whenever a
\* reservation is admitted, the aggregate counter of its sku is at most
\* totalStock afterwards, and the admitted quantity is at most totalStock
\* minus what the other users hold.
C1_NoOverselling ==
  [][\A p \in Procs :
       Admitted(p) =>
         LET item == proc[p].items[proc[p].i]
         IN /\ CounterOf(cnt', item.sku) <= totalStock'[item.sku]
            /\ item.quantity
                 <= totalStock[item.sku]
                      - HeldBy(res, item.sku, Registered \ {proc[p].user})]_vars

\* C2  In every reachable state the aggregate counter of every sku equals
\* the sum of the quantities of the live per-user reservations of that sku.
C2_CounterIsSum == \A s \in Catalog : getTotalReservedStock(s) = HeldSum(res, s)

\* C3  Concurrent reserves are linearizable on the counter: admission is
\* decided on the state in which the increment takes effect, so every
\* admitted reservation passes the availability check against the counter as
\* it stands at its EXEC, as the atomic check-and-reserve of a serial
\* execution would.
C3_Linearizable ==
  [][\A p \in Procs :
       Admitted(p) =>
         LET item == proc[p].items[proc[p].i]
         IN isAvailable(totalStock[item.sku], getTotalReservedStock(item.sku),
                        item.quantity)]_vars

\* C4  Reservations of one (userId, sku) merge by summing: every successful
\* reserveStock leaves the entry at the quantity it held plus the quantity
\* reserved, also when reserves of the key run concurrently.
C4_MergeBySum ==
  [][\A p \in Procs :
       Admitted(p) =>
         LET item == proc[p].items[proc[p].i]
             key == getReservationKey(proc[p].user, item.sku)
         IN res'[key].qty = res[key].qty + item.quantity]_vars

\* This step is the return of the request of slot p to its caller.
Returns(p) == proc[p].pc # "done" /\ proc'[p].pc = "done"

\* This step is the return of a reserveItems call that failed after it had
\* committed at least one item.
FailedBatch(p) ==
  /\ Returns(p)
  /\ proc'[p].op = "reserve"
  /\ proc'[p].err # "none"
  /\ Len(proc'[p].out) >= 1

\* After the step the caller of slot p holds of every sku what it held when
\* the call began, and every counter is what it was then.
RolledBack(p) ==
  \A s \in Catalog :
    /\ Get(res', getReservationKey(proc'[p].user, s)) = proc'[p].pre.held[s]
    /\ CounterOf(cnt', s) = proc'[p].pre.reserved[s]

CheckedOut(p) ==
  /\ Returns(p)
  /\ proc'[p].op = "checkout"
  /\ proc'[p].err = "none"

\* After the step every cart item of slot p is converted: nothing is held of
\* its sku, totalStock and the counter are lower by its quantity than when
\* the call began, and the one order created since is the order of this cart.
Converted(p) ==
  LET pr == proc'[p]
  IN /\ \A n \in 1..Len(pr.out) :
          LET item == pr.out[n]
          IN /\ Get(res', getReservationKey(pr.user, item.sku)) = 0
             /\ totalStock'[item.sku] = pr.pre.stock[item.sku] - item.quantity
             /\ CounterOf(cnt', item.sku) = pr.pre.reserved[item.sku] - item.quantity
     /\ Len(orders') = pr.pre.norders + 1
     /\ orders'[Len(orders')] = NewOrder(pr)

C7_ExpiryReleasesStock ==
  [][Tick => \A s \in Catalog : CounterOf(cnt', s) <= HeldSum(res, s)]_vars

\* C8  A reservation is unobservable once the TTL given by the last
\* reserveStock of its key has elapsed: getReservedQuantity is 0 and the key
\* is not among those getUserReservations lists.
C8_Unobservable ==
  \A u \in Registered, s \in Catalog :
    due[getReservationKey(u, s)] = 0 => getReservedQuantity(u, s) = 0

\* C9  Sliding expiry: every reserveStock leaves the reservation of its key
\* with the full ttl of the call, whatever was left on it before.
C9_SlidingExpiry ==
  [][\A p \in Procs :
       Admitted(p) =>
         LET key == getReservationKey(proc[p].user, proc[p].items[proc[p].i].sku)
         IN res'[key].ttl = ReservationTtl]_vars

\* A reserveItems call of one item returned success for a sku the user held
\* before the call; time passed during the call, and the entry has the
\* full ttl: the tick came before the reserveStock, which refreshed an entry
\* that had less than the full ttl left.
C9_Witness ==
  \E p \in Procs, s \in Catalog :
    LET pr == proc[p]
        key == getReservationKey(pr.user, s)
    IN /\ pr.pc = "done" /\ pr.op = "reserve" /\ pr.err = "none" /\ pr.obs
       /\ ~pr.clean
       /\ pr.out = <<Item(s, 1)>>
       /\ pr.pre.held[s] > 0
       /\ res[key] = [qty |-> pr.pre.held[s] + 1, ttl |-> ReservationTtl]

\* This step is the client.get of a redisService.cancelReservation by slot p.
CancelReads(p) ==
  /\ proc[p].pc = "cn_get"
  /\ <<proc'[p].pc, proc'[p].i, proc'[p].j>> # <<proc[p].pc, proc[p].i, proc[p].j>>

\* C10  Idempotent cancellation: a redisService.cancelReservation that reads
\* an absent (never created, cancelled or expired) key returns 0 at once,
\* without entering its MULTI block, and changes no reservation, no counter,
\* no stock and no order.
C10_IdempotentCancel ==
  [][\A p \in Procs :
       (/\ CancelReads(p)
        /\ Get(res, getReservationKey(proc[p].user, CancelArg(proc[p]).sku)) = 0)
       => /\ proc'[p].ret = 0
          /\ proc'[p].pc \notin {"cn_ttl", "cn_exec"}
          /\ res' = res /\ cnt' = cnt
          /\ totalStock' = totalStock /\ orders' = orders]_vars

\* A cancel of a sku of the catalog of which the user held nothing has
\* returned 0 without an error, and nothing is held.
C10_Witness ==
  \E p \in Procs :
    LET pr == proc[p]
    IN /\ pr.pc = "done" /\ pr.op = "cancel" /\ pr.err = "none" /\ pr.clean
       /\ Len(pr.items) = 1 /\ pr.items[1].sku \in Catalog
       /\ pr.pre.held[pr.items[1].sku] = 0
       /\ pr.ret = 0 /\ pr.out = <<>>
       /\ Get(res, getReservationKey(pr.user, pr.items[1].sku)) = 0

\* This step is the MULTI/EXEC of a redisService.cancelReservation by slot p.
CancelExecs(p) == proc[p].pc = "cn_exec" /\ proc'[p].pc # "cn_exec"

\* This step is the MULTI/EXEC of a releaseReservation by slot p.
ReleaseExecs(p) == proc[p].pc = "rl_exec" /\ proc'[p].pc # "rl_exec"

\* The write of a cancel or release of sku by slot p is a no-op: no entry for
\* the key afterwards, the counter of the sku as before, nothing reported.
NoOpFor(p, sku) ==
  /\ Get(res', getReservationKey(proc[p].user, sku)) = 0
  /\ cnt'[sku] = cnt[sku]
  /\ proc'[p].ret = 0

\* C11  A cancelReservation or releaseReservation whose entry expired after
\* it was read and before the write executes behaves as if the hold was
\* already gone: it reports 0 / nothing released, creates no entry for the
\* key and leaves the aggregate counter as it is.
C11_ExpiryRace ==
  [][\A p \in Procs :
       /\ (CancelExecs(p)
             /\ Get(res, getReservationKey(proc[p].user, CancelArg(proc[p]).sku)) = 0)
          => NoOpFor(p, CancelArg(proc[p]).sku)
       /\ (ReleaseExecs(p)
             /\ Get(res, getReservationKey(proc[p].user, proc[p].out[proc[p].i].sku)) = 0)
          => NoOpFor(p, proc[p].out[proc[p].i].sku)]_vars

\* The smaller of two numbers.
Min(a, b) == IF a < b THEN a ELSE b

\* C12  cancelReservation(userId, sku, q) with held quantity h > 0 cancels
\* c = h when q is omitted and c = min(q, h) otherwise: it returns c, lowers
\* the aggregate counter of sku by exactly c, leaves the entry at h - c
\* (absent when h - c = 0), and changes no other entry and no other counter.
C12_CancelQuantity ==
  [][\A p \in Procs :
       CancelExecs(p) =>
         LET arg == CancelArg(proc[p])
             key == getReservationKey(proc[p].user, arg.sku)
             h == Get(res, key)
             c == IF arg.quantity = 0 THEN h ELSE Min(arg.quantity, h)
         IN h > 0 =>
              /\ proc'[p].ret = c
              /\ CounterOf(cnt', arg.sku) = CounterOf(cnt, arg.sku) - c
              /\ Get(res', key) = h - c
              /\ \A k \in Keys \ {key} : res'[k] = res[k]
              /\ \A s \in Catalog \ {arg.sku} : cnt'[s] = cnt[s]]_vars

\* A cancel of 1 of the 2 units the user held of a sku has returned 1: one
\* unit is still held and the counter is one lower than before the call.
C12_Witness ==
  \E p \in Procs, s \in Catalog :
    LET pr == proc[p]
    IN /\ pr.pc = "done" /\ pr.op = "cancel" /\ pr.err = "none" /\ pr.clean
       /\ pr.items = <<Item(s, 1)>>
       /\ pr.pre.held[s] = 2
       /\ pr.ret = 1 /\ pr.out = <<Item(s, 1)>>
       /\ Get(res, getReservationKey(pr.user, s)) = 1
       /\ getTotalReservedStock(s) = pr.pre.reserved[s] - 1

\* This step is the client.get of a releaseReservation by slot p.
ReleaseReads(p) ==
  /\ proc[p].pc = "rl_get"
  /\ <<proc'[p].pc, proc'[p].i>> # <<proc[p].pc, proc[p].i>>

\* C13  releaseReservation(userId, sku, q) with q above the quantity held
\* for the key, nothing held included, fails with OverRelease and leaves the
\* reservations and the counters unchanged.
C13_OverRelease ==
  [][\A p \in Procs :
       (/\ ReleaseReads(p)
        /\ proc[p].out[proc[p].i].quantity
             > Get(res, getReservationKey(proc[p].user, proc[p].out[proc[p].i].sku)))
       => /\ proc'[p].pc = "done"
          /\ proc'[p].err = "OverRelease"
          /\ res' = res /\ cnt' = cnt]_vars

\* This step is a read of checkStockAvailability by slot p, called from
\* reserveItems: getProductBySku, then getTotalReservedStock and the result.
ProductRead(p) == proc[p].pc = "ri_product" /\ proc'[p].pc # "ri_product"

AvailabilityChecked(p) == proc[p].pc = "ri_counter" /\ proc'[p].pc # "ri_counter"

\* C14  checkStockAvailability(sku, q) answers isAvailable exactly when
\* totalStock - aggregateReserved >= q, on the difference as it is, reports
\* availableStock = max(0, totalStock - aggregateReserved), and changes
\* neither the ledger nor the reservation store; for an over-reserved sku
\* every q >= 1 is refused and availableStock is 0.
C14_CheckStockAvailability ==
  [][\A p \in Procs :
       /\ (ProductRead(p) \/ AvailabilityChecked(p))
          => /\ totalStock' = totalStock /\ orders' = orders
             /\ res' = res /\ cnt' = cnt
       /\ AvailabilityChecked(p)
          => LET item == proc[p].items[proc[p].i]
                 diff == totalStock[item.sku] - CounterOf(cnt, item.sku)
             IN /\ (proc'[p].pc = "rs_get") <=> (diff >= item.quantity)
                /\ (proc'[p].pc # "rs_get") =>
                     /\ proc'[p].err = "InsufficientStock"
                     /\ proc'[p].av = IF diff > 0 THEN diff ELSE 0
                /\ (CounterOf(cnt, item.sku) > totalStock[item.sku]) =>
                     proc'[p].pc # "rs_get" /\ proc'[p].av = 0]_vars

\* An item was refused for InsufficientStock with availableStock 0 while the
\* counter of its sku is above totalStock; the compensating cancels of the
\* batch have not run yet.
C14_Witness ==
  \E p \in Procs :
    LET pr == proc[p]
        sku == pr.items[Len(pr.items)].sku
    IN /\ pr.op = "reserve" /\ pr.pc = "cn_get" /\ pr.j = 1
       /\ pr.err = "InsufficientStock" /\ pr.av = 0
       /\ getTotalReservedStock(sku) > totalStock[sku]

\* This step is a step of the processCheckout call of slot p.
CheckoutSteps(p) ==
  /\ proc'[p].op = "checkout"
  /\ <<proc'[p].pc, proc'[p].i>> # <<proc[p].pc, proc[p].i>>

\* C15  Checkout never partially proceeds on validation failure: every cart
\* item is validated, an item whose reserved quantity is below the cart
\* quantity or whose availability check fails is recorded, and if any was
\* recorded processCheckout fails with CheckoutValidationFailed listing all
\* of them, having created no order, reduced no stock and released nothing.
C15_ValidationFailure ==
  [][\A p \in Procs :
       /\ (proc[p].pc = "co_vres" /\ proc'[p].pc = "co_vprod")
          => LET item == proc[p].out[proc[p].i]
                 short == getReservedQuantity(proc[p].user, item.sku) < item.quantity
             IN proc'[p].verr = proc[p].verr \cup (IF short THEN {item.sku} ELSE {})
       /\ (proc[p].pc = "co_vcnt" /\ CheckoutSteps(p))
          => LET item == proc[p].out[proc[p].i]
                 last == proc[p].i = Len(proc[p].out)
                 refused == totalStock[item.sku] - CounterOf(cnt, item.sku) < item.quantity
                 bad == proc[p].verr \cup (IF refused THEN {item.sku} ELSE {})
             IN /\ proc'[p].verr = bad
                /\ ~last => proc'[p].pc = "co_vres" /\ proc'[p].i = proc[p].i + 1
                /\ (last /\ bad # {}) =>
                     /\ proc'[p].pc = "done"
                     /\ proc'[p].err = "CheckoutValidationFailed"
                     /\ Len(orders') = proc'[p].pre.norders
                     /\ totalStock' = proc'[p].pre.stock
                /\ (last /\ bad = {}) => proc'[p].pc = "co_order"
       /\ (CheckoutSteps(p) /\ proc'[p].verr # {})
          => /\ orders' = orders /\ totalStock' = totalStock
             /\ res' = res /\ cnt' = cnt]_vars

\* A checkout of a cart of two skus has failed validation with both skus
\* listed: no order exists and the stock is the initial stock.
C15_Witness ==
  \E p \in Procs :
    LET pr == proc[p]
    IN /\ pr.pc = "done" /\ pr.op = "checkout"
       /\ pr.err = "CheckoutValidationFailed"
       /\ Len(pr.out) = 2 /\ pr.verr = {"s1", "s2"}
       /\ orders = <<>> /\ totalStock = InitialStock

\* This step is the return of a processCheckout call that failed.
CheckoutFailed(p) ==
  /\ Returns(p)
  /\ proc'[p].op = "checkout"
  /\ proc'[p].err # "none"

\* The order that the call of slot p saved is in the collection after the
\* step.
OrderRemains(p) ==
  /\ proc'[p].oid \in 1..Len(orders')
  /\ orders'[proc'[p].oid] = NewOrder(proc'[p])

\* C16  Checkout is atomic: when processCheckout fails at any step
\* (validation, order creation, a stock reduction or a release) nothing of
\* it remains; in particular the order it saved does not remain.
C16_CheckoutAtomic ==
  [][\A p \in Procs : CheckoutFailed(p) => ~OrderRemains(p)]_vars

ReduceReads(p) == proc[p].pc = "rd_read" /\ proc'[p].pc # "rd_read"

\* This step is the save of a reduceStock call, which then succeeds.
ReduceSaves(p) == proc[p].pc = "rd_save" /\ proc'[p].pc # "rd_save"

\* totalStock is never negative.
StockNonNegative == \A s \in Catalog : totalStock[s] >= 0

\* C18  totalStock(sku) is a non-negative integer in every reachable state:
\* under any interleaving of concurrent calls, a reduceStock(sku, q) that finds
\* the stock below q fails with InsufficientStock and leaves totalStock as it
\* is, and no reduceStock(sku, q) succeeds at a moment when the stock of the
\* ledger is below q.
C18_NonNegativeStock ==
  [][/\ StockNonNegative'
     /\ \A p \in Procs :
          LET item == proc[p].out[proc[p].i]
          IN /\ (ReduceReads(p) /\ totalStock[item.sku] < item.quantity) =>
                  /\ proc'[p].pc = "done" /\ proc'[p].err = "InsufficientStock"
                  /\ totalStock' = totalStock
             /\ ReduceSaves(p) => totalStock[item.sku] >= item.quantity]_vars

\* C19  reduceStock is an atomic conditional decrement: every reduceStock(sku,
\* q) that succeeds lowers the stock of the ledger by exactly q, that is, no
\* other call's write comes between its test and its write, so that after any
\* set of concurrent calls totalStock is its initial value minus the
\* quantities of the calls that succeeded.
C19_AtomicDecrement ==
  [][\A p \in Procs :
       ReduceSaves(p) =>
         LET item == proc[p].out[proc[p].i]
         IN /\ totalStock[item.sku] = proc[p].ts
            /\ totalStock'[item.sku] = totalStock[item.sku] - item.quantity]_vars

\* This step is the one at which the reserveItems call of slot p finds an
\* item of its batch that fails item validation or the stock-availability
\* check.
ItemRejected(p) ==
  /\ proc'[p].op = "reserve"
  /\ proc[p].err = "none"
  /\ proc'[p].err \in {"InvalidItem", "ProductNotFound", "InsufficientStock"}

\* C20  Multi-SKU reservation validates all items before reserving any: no
\* reserveStock call of a batch is issued until every item of the batch has
\* passed item validation and the stock-availability check, so that when an
\* item of the batch is rejected no reserveStock call of the batch has been
\* made (reservedItems is empty).
C20_ValidateBeforeReserve ==
  [][\A p \in Procs : ItemRejected(p) => Len(proc'[p].out) = 0]_vars

\* This step is a store access of the call of slot p that throws.
StoreFailed(p) == proc'[p].bad > proc[p].bad

\* This step is a compensating cancelReservation of reserveItems that throws.
RollbackCancelFailed(p) ==
  /\ StoreFailed(p)
  /\ proc[p].op = "reserve"
  /\ proc[p].pc \in {"cn_get", "cn_ttl", "cn_exec"}

\* C21  Best-effort rollback keeps the root cause: when a compensating
\* cancelReservation of a failed reserveItems throws, the rollback goes on
\* with the next reserved item (or ends after the last), the triggering error
\* is kept, and a failed reserveItems never returns the error of a cancel.
C21_BestEffortRollback ==
  [][\A p \in Procs :
       /\ RollbackCancelFailed(p) =>
            /\ proc[p].err \notin {"none", "CancelFailed"}
            /\ proc'[p].err = proc[p].err
            /\ IF proc[p].j < Len(proc[p].out)
               THEN proc'[p].pc = "cn_get" /\ proc'[p].j = proc[p].j + 1
               ELSE proc'[p].pc = "done"
       /\ (Returns(p) /\ proc'[p].op = "reserve") => proc'[p].err # "CancelFailed"]_vars

\* A reserveItems call with two reserved items has failed; the cancel of the
\* first one threw, so that hold is still there, the second one was
\* cancelled all the same, and the error is the triggering one.
C21_Witness ==
  \E p \in Procs :
    LET pr == proc[p]
    IN /\ pr.pc = "done" /\ pr.op = "reserve" /\ pr.bad = 1
       /\ pr.err = "InsufficientStock"
       /\ Len(pr.out) = 2 /\ pr.out[1].sku # pr.out[2].sku
       /\ getReservedQuantity(pr.user, pr.out[1].sku)
            = pr.pre.held[pr.out[1].sku] + pr.out[1].quantity
       /\ getReservedQuantity(pr.user, pr.out[2].sku) = pr.pre.held[pr.out[2].sku]

\* This step is the KEYS of the getUserCart of a checkout.
CartKeysRead(p) == proc[p].pc = "co_keys" /\ proc'[p].pc # "co_keys"

\* The user of the call of slot p has no live reservation.
NothingHeld(p) ==
  \A s \in Catalog : getReservedQuantity(proc[p].user, s) = 0

\* C22  processCheckout for a user with no live reservations fails with
\* EmptyCart: the call ends at the cart load, and a checkout that returns
\* EmptyCart has created no order, reduced no stock and changed no
\* reservation and no counter.
C22_EmptyCart ==
  [][\A p \in Procs :
       /\ (CartKeysRead(p) /\ NothingHeld(p)) =>
            /\ proc'[p].pc = "done" /\ proc'[p].err = "EmptyCart"
            /\ UNCHANGED <<totalStock, orders, res, cnt>>
       /\ (CheckoutSteps(p) /\ proc[p].pc \in {"idle", "co_keys", "co_kget"}) =>
            UNCHANGED <<totalStock, orders, res, cnt>>
       /\ (CheckoutSteps(p) /\ proc'[p].err = "EmptyCart") =>
            /\ proc[p].pc \in {"co_keys", "co_kget"} /\ proc'[p].pc = "done"
            /\ Len(orders') = proc'[p].pre.norders
            /\ totalStock' = proc'[p].pre.stock]_vars

\* The checkout of "u2", who holds nothing while "u1" holds some of "s1", has
\* returned EmptyCart.
C22_Witness ==
  \E p \in Procs :
    /\ proc[p].pc = "done" /\ proc[p].op = "checkout" /\ proc[p].err = "EmptyCart"
    /\ proc[p].user = "u2"
    /\ getReservedQuantity("u1", "s1") > 0
    /\ orders = <<>> /\ totalStock = InitialStock

\* This step is the call of reserveItems, cartService.cancelReservation or
\* processCheckout in slot p, with its user gate.
Called(p) == proc[p].pc = "idle" /\ proc'[p].pc # "idle"

\* C23  User gate: reserveItems, cartService.cancelReservation and
\* processCheckout called with a userId for which userExists is false fail
\* with UserNotFound at once, before any mutation: reservations, counters,
\* stock and orders are as they were, and a call that returns UserNotFound
\* has taken no other step.
C23_UserGate ==
  [][\A p \in Procs :
       /\ (Called(p) /\ proc'[p].op \in {"reserve", "cancel", "checkout"}
             /\ proc'[p].user \notin Registered) =>
            /\ proc'[p].pc = "done" /\ proc'[p].err = "UserNotFound"
            /\ UNCHANGED <<totalStock, orders, res, cnt>>
       /\ (Returns(p) /\ proc'[p].err = "UserNotFound") =>
            /\ proc[p].pc = "idle"
            /\ proc'[p].user \notin Registered
            /\ UNCHANGED <<totalStock, orders, res, cnt>>]_vars

\* The second request of a behaviour, a processCheckout for the unknown user
\* "u0" made while "u1" holds some of "s1", has returned UserNotFound.
C23_Witness ==
  \E p \in Procs :
    /\ proc[p].pc = "done" /\ proc[p].op = "checkout" /\ proc[p].err = "UserNotFound"
    /\ proc[p].user = "u0"
    /\ ops = 2
    /\ getReservedQuantity("u1", "s1") > 0 /\ getTotalReservedStock("s1") > 0

\* The sum of the quantities of the items of sku in a batch.
RECURSIVE BatchQty(_, _)
BatchQty(items, sku) ==
  IF Len(items) = 0 THEN 0
  ELSE (IF Head(items).sku = sku THEN Head(items).quantity ELSE 0)
         + BatchQty(Tail(items), sku)

\* This step is the return of a reserveItems call that succeeded.
Reserved(p) ==
  /\ Returns(p)
  /\ proc'[p].op = "reserve"
  /\ proc'[p].err = "none"

\* After the step every item of the batch of slot p is committed: of every
\* sku the user holds, and the counter counts, the quantities of the batch
\* more than when the call began, and reservedItems is the batch.
Committed(p) ==
  LET pr == proc'[p]
  IN /\ \A s \in Catalog :
          /\ Get(res', getReservationKey(pr.user, s))
               = pr.pre.held[s] + BatchQty(pr.items, s)
          /\ CounterOf(cnt', s) = pr.pre.reserved[s] + BatchQty(pr.items, s)
     /\ pr.out = pr.items

\* C24  A successful reserveItems commits every item, as stated: for each sku
\* of the batch the user's reserved quantity and the aggregate counter are
\* higher than before the call by the sum of that sku's item quantities, and
\* the returned reservedItems equals the input items in the given order.
C24_CommitsAsStated ==
  [][\A p \in Procs : Reserved(p) => Committed(p)]_vars

\* C24  A successful reserveItems commits every item when no other operation
\* ran and no key's time to live ran out during the call: for each sku of the
\* batch the user's reserved quantity and the aggregate counter are higher
\* than before the call by the sum of that sku's item quantities, and the
\* returned reservedItems equals the input items in the given order.
C24_Commits ==
  [][\A p \in Procs : (Reserved(p) /\ proc'[p].clean) => Committed(p)]_vars

\* An undisturbed batch of two items of the same sku, of which the user held
\* some before, has succeeded: the user holds two more.
C24_Witness ==
  \E p \in Procs :
    LET pr == proc[p]
    IN /\ pr.pc = "done" /\ pr.op = "reserve" /\ pr.err = "none" /\ pr.clean
       /\ Len(pr.items) = 2 /\ pr.items[1].sku = pr.items[2].sku
       /\ pr.pre.held[pr.items[1].sku] > 0
       /\ getReservedQuantity(pr.user, pr.items[1].sku)
            = pr.pre.held[pr.items[1].sku] + 2
       /\ pr.out = pr.items

\* The (userId, sku) on which the cancelReservation or releaseReservation of
\* slot p works.
ShrinkKey(p) ==
  IF proc[p].op = "checkout"
  THEN getReservationKey(proc[p].user, proc[p].out[proc[p].i].sku)
  ELSE getReservationKey(proc[p].user, CancelArg(proc[p]).sku)

\* C25  Concurrent cancelReservation and releaseReservation calls on the same
\* (userId, sku) never lose or double-apply an update: whenever the MULTI
\* block of one of them runs, the aggregate counter goes down by exactly as
\* much as the per-user reservation shrinks, and by no more than was held.
C25_NoLostUpdate ==
  [][\A p \in Procs :
       (CancelExecs(p) \/ ReleaseExecs(p)) =>
         LET key == ShrinkKey(p)
             sku == key[2]
         IN /\ CounterOf(cnt, sku) - CounterOf(cnt', sku)
                 = res[key].qty - res'[key].qty
            /\ CounterOf(cnt, sku) - CounterOf(cnt', sku) <= res[key].qty]_vars

\* The order that the checkout of slot p saved is in the collection.
OrderExists(p) ==
  /\ proc[p].oid \in 1..Len(orders)
  /\ orders[proc[p].oid] = NewOrder(proc[p])
  /\ Len(orders) = proc[p].pre.norders + 1

\* The stock of every cart item of the checkout of slot p is reduced by the
\* item's quantity.
AllReduced(p) ==
  \A n \in 1..Len(proc[p].out) :
    LET item == proc[p].out[n]
    IN totalStock[item.sku] = proc[p].pre.stock[item.sku] - item.quantity

C27_ErrorsPropagate ==
  [][\A p \in Procs :
       /\ Admitted(p) => proc[p].bad = 0
       /\ (proc[p].pc = "co_order" /\ proc'[p].pc # "co_order") => proc[p].bad = 0
       /\ (Returns(p) /\ proc'[p].op \in {"reserve", "checkout"} /\ proc'[p].bad > 0) =>
            proc'[p].err # "none"]_vars

\* C28  reserveStock is the only step that increases the aggregate reserved
\* counter: a step that leaves the counter of some sku higher than it was is
\* the MULTI block of a reserveStock on that sku; no cancelReservation,
\* releaseReservation, processCheckout, read or expiry step does so.
C28_OnlyReserveIncreases ==
  [][\A s \in Catalog :
       CounterOf(cnt', s) > CounterOf(cnt, s) =>
         \E p \in Procs : Admitted(p) /\ proc[p].items[proc[p].i].sku = s]_vars

\* The longest time to live an entry is given.
MaxTtl == IF ReservationTtl > DefaultTtl THEN ReservationTtl ELSE DefaultTtl

\* Every reservation entry carries a finite expiry.
FiniteExpiry == \A k \in Keys : res[k].qty > 0 => res[k].ttl \in 1..MaxTtl

\* C29  Every live reservation is eventually destroyed: each per-user entry
\* always carries a finite expiry (after reserve, partial cancel and partial
\* release alike), so every entry eventually becomes absent, through
\* cancellation, full release or the expiry of its time to live, once no
\* further reserveStock is issued for it.
C29_EventuallyDestroyed ==
  /\ []FiniteExpiry
  /\ \A k \in Keys : (res[k].qty > 0) ~> (res[k].qty = 0)

\* A partial cancel has left one unit of the two "u1" held of "s1": the
\* remaining entry carries an expiry.
C29_Witness ==
  \E p \in Procs :
    /\ proc[p].pc = "done" /\ proc[p].op = "cancel" /\ proc[p].ret = 1
    /\ proc[p].user = "u1" /\ proc[p].pre.held["s1"] = 2
    /\ res[<<"u1", "s1">>].qty = 1
    /\ res[<<"u1", "s1">>].ttl \in 1..MaxTtl

\* This step is the stock check of the reserveItems call of slot p on its
\* current item.
StockCheckedBy(p) == proc[p].pc = "ri_counter" /\ proc'[p].pc # "ri_counter"

\* C30  The multi-item reservation is not isolated: every item a batch
\* commits is counted in the aggregate counter at once, whether or not the
\* batch will complete, and every stock check is decided on the counter as it
\* is, the items of unfinished batches included; so a concurrent reserve by
\* another user can be rejected with InsufficientStock for stock that is
\* free again once the batch has rolled back.
C30_NotIsolated ==
  [][\A p \in Procs :
       LET item == proc[p].items[proc[p].i]
       IN /\ Admitted(p) =>
               CounterOf(cnt', item.sku) = CounterOf(cnt, item.sku) + item.quantity
          /\ StockCheckedBy(p) =>
               (proc'[p].err = "InsufficientStock"
                  <=> proc[p].ts - CounterOf(cnt, item.sku) < item.quantity)]_vars

\* The reserve of one user for the only unit of "s2" has just been rejected
\* with InsufficientStock, while that unit is held by nobody but the batch of
\* another user that has already failed and is about to cancel it.
C30_Witness ==
  \E p, q \in Procs :
    /\ p # q
    /\ proc[p].pc = "done" /\ proc[p].op = "reserve"
    /\ proc[p].err = "InsufficientStock" /\ proc[p].av = 0
    /\ proc[p].items[Len(proc[p].items)] = Item("s2", 1)
    /\ proc[q].op = "reserve" /\ proc[q].pc = "cn_get" /\ proc[q].err # "none"
    /\ proc[q].user # proc[p].user
    /\ proc[q].out = <<Item("s2", 1)>>
    /\ HeldSum(res, "s2") = 1 /\ getTotalReservedStock("s2") = 1
    /\ totalStock["s2"] = 1

\* C31  The aggregate reserved counter is never negative: in every reachable
\* state getTotalReservedStock(sku) >= 0 for every sku, under any
\* interleaving of reserve, cancel, release, checkout and expiry.
C31_CounterNonNegative == \A s \in Catalog : getTotalReservedStock(s) >= 0

\* The quantity of sku in the items of a cart or of an order.
RECURSIVE ItemsQty(_, _)
ItemsQty(items, sku) ==
  IF Len(items) = 0 THEN 0
  ELSE (IF Head(items).sku = sku THEN Head(items).quantity ELSE 0)
         + ItemsQty(Tail(items), sku)

\* The processCheckout calls of slots p and q are two calls of one user that
\* loaded the same live reservations as their cart.
SameHolds(p, q) ==
  /\ p # q
  /\ proc[p].op = "checkout" /\ proc[q].op = "checkout"
  /\ proc[p].user = proc[q].user
  /\ Len(proc[p].out) >= 1 /\ proc[p].out = proc[q].out
  /\ proc[p].pc \notin {"co_keys", "co_kget"}
  /\ proc[q].pc \notin {"co_keys", "co_kget"}

\* C32  A hold is converted at most once: of two concurrent processCheckout
\* calls by the same user over the same live reservations at most one saves
\* an Order, and together they reduce totalStock of each sku by at most the
\* held quantity.
C32_ConvertedOnce ==
  \A p, q \in Procs :
    SameHolds(p, q) =>
      /\ ~(proc[p].oid > 0 /\ proc[q].oid > 0)
      /\ \A s \in Catalog :
           totalStock[s] >= InitialStock[s] - ItemsQty(proc[p].out, s)

\* The quantity of sku over all persisted orders.
RECURSIVE SoldQty(_, _)
SoldQty(os, sku) ==
  IF Len(os) = 0 THEN 0
  ELSE ItemsQty(Head(os).items, sku) + SoldQty(Tail(os), sku)

\* No processCheckout call is between its first and its last step.
NoCheckoutInProgress ==
  \A p \in Procs : ~(proc[p].op = "checkout" /\ Running(proc[p]))

\* C33  Stock conservation: whenever no checkout is in progress, for every
\* sku totalStock plus the quantity of the sku over all persisted Orders
\* equals the initial totalStock, so the units sold never exceed the initial
\* stock.
C33_StockConservation ==
  NoCheckoutInProgress =>
    \A s \in Catalog :
      /\ totalStock[s] + SoldQty(orders, s) = InitialStock[s]
      /\ SoldQty(orders, s) <= InitialStock[s]

\* When the call began the user held live reservations, each of at most the
\* totalStock of its sku, and the counter of each such sku did not exceed
\* that totalStock.
ValidHold(pre) ==
  /\ \E s \in Catalog : pre.held[s] > 0
  /\ \A s \in Catalog :
       pre.held[s] > 0 =>
         (pre.held[s] <= pre.stock[s] /\ pre.reserved[s] <= pre.stock[s])

\* C34  Checkout of a valid hold succeeds: a processCheckout of a user whose
\* live reservations are each at most the totalStock of their sku, with the
\* aggregate counter of each such sku at most totalStock, during which no
\* other operation ran and nothing expired, returns success.
C34_ValidHoldSucceeds ==
  [][\A p \in Procs :
       (/\ Returns(p)
        /\ proc'[p].op = "checkout"
        /\ proc'[p].clean
        /\ ValidHold(proc'[p].pre))
       => proc'[p].err = "none"]_vars

\* C35  processCheckout only converts holds that are still live: when it
\* reduces totalStock for a cart item the user's reservation of that sku is
\* still there with at least the item's quantity, and when it reports success
\* the releaseReservation of its last item did release the hold.
C35_OnlyLiveHolds ==
  [][\A p \in Procs :
       /\ (ReduceSaves(p) /\ proc[p].op = "checkout") =>
            LET item == proc[p].out[proc[p].i]
            IN getReservedQuantity(proc[p].user, item.sku) >= item.quantity
       /\ CheckedOut(p) => proc'[p].ret = 1]_vars

\* C36  A partial cancelReservation or releaseReservation does not extend the
\* hold: when its MULTI block leaves a per-user reservation behind, the
\* reservation was still live when the block ran and has no more time to live
\* after the block than it had before it.
C36_NoExtension ==
  [][\A p \in Procs :
       (CancelExecs(p) \/ ReleaseExecs(p)) =>
         LET key == ShrinkKey(p)
         IN res'[key].qty > 0 =>
              /\ res[key].qty > 0
              /\ res'[key].ttl <= res[key].ttl]_vars

\* ------------------------------------------------ RedisService: key strings
\* The reservation keys as the strings they are.  A string is the sequence of
\* its characters; the literals "reservation" and "reserved_stock", which
\* hold no separator, are one element each.  userIds are ObjectId strings
\* (hexadecimal digits), skus any non-empty strings.
MaxIdLen == 2
MaxSkuLen == 3
MaxKeyOps == 2
KeyQty == 1

Strings(chars, n) == UNION {[1..m -> chars] : m \in 1..n}
UserIdStrings == Strings({"a", "b"}, MaxIdLen)
SkuStrings == Strings({"c", ":"}, MaxSkuLen)

\* `reservation:${userId}:${sku}`
getReservationKeyString(userId, sku) ==
  <<"reservation", ":">> \o userId \o <<":">> \o sku

\* `reserved_stock:${sku}`
getReservedStockKeyString(sku) == <<"reserved_stock", ":">> \o sku

\* String.prototype.split(sep): the pieces between the occurrences of sep.
RECURSIVE split(_, _)
split(str, sep) ==
  IF \A n \in 1..Len(str) : str[n] # sep THEN <<str>>
  ELSE LET n == CHOOSE m \in 1..Len(str) :
                  str[m] = sep /\ \A l \in 1..(m - 1) : str[l] # sep
       IN <<SubSeq(str, 1, n - 1)>> \o split(SubSeq(str, n + 1, Len(str)), sep)

\* key.split(':')[2]
SkuOfKey(key) ==
  LET parts == split(key, ":")
  IN IF Len(parts) >= 3 THEN parts[3] ELSE <<"undefined">>

\* The glob match of KEYS: '*' stands for any run of characters.
RECURSIVE GlobMatch(_, _)
GlobMatch(pattern, str) ==
  IF pattern = <<>> THEN str = <<>>
  ELSE IF Head(pattern) = "*"
  THEN GlobMatch(Tail(pattern), str)
         \/ (str # <<>> /\ GlobMatch(pattern, Tail(str)))
  ELSE str # <<>> /\ Head(str) = Head(pattern)
         /\ GlobMatch(Tail(pattern), Tail(str))

\* client.get on the keyspace r (a function of the keys that exist): 0 for
\* nil.
GetString(r, key) == IF key \in DOMAIN r THEN r[key].qty ELSE 0

\* The keyspace r with key set to value.
Stored(r, key, value) ==
  [k \in DOMAIN r \cup {key} |-> IF k = key THEN value ELSE r[k]]

\* reserveStock(userId, sku, KeyQty, ReservationTtl) on the key strings: GET,
\* then MULTI { SETEX; INCRBY; EXPIRE }.  In this specification res is the
\* keyspace of the reservation keys, cnt that of the counter keys, and due
\* records the (userId, sku) the calls were made with.
KeyReserve(userId, sku) ==
  LET reservationKey == getReservationKeyString(userId, sku)
      reservedStockKey == getReservedStockKeyString(sku)
      existingQty == GetString(res, reservationKey)
      reservedStock == IF reservedStockKey \in DOMAIN cnt THEN cnt[reservedStockKey].val ELSE 0
  IN /\ ops < MaxKeyOps
     /\ ops' = ops + 1
     /\ res' = Stored(res, reservationKey,
                      [qty |-> existingQty + KeyQty, ttl |-> ReservationTtl])
     /\ cnt' = Stored(cnt, reservedStockKey,
                      [live |-> TRUE, val |-> reservedStock + KeyQty, ttl |-> ReservationTtl])
     /\ due' = due \cup {<<userId, sku>>}
     /\ proc' = [op |-> "reserveStock", user |-> userId, out |-> <<>>]
     /\ UNCHANGED <<totalStock, orders>>

\* getUserReservations(userId): KEYS of the pattern, then for each key GET and
\* key.split(':')[2]; out gives, for each key listed, the entry pushed.
KeyList(userId) ==
  LET pattern == getReservationKeyString(userId, <<"*">>)
      keys == {k \in DOMAIN res : GlobMatch(pattern, k)}
  IN /\ proc' = [op |-> "getUserReservations", user |-> userId,
                 out |-> [k \in {key \in keys : GetString(res, key) > 0} |->
                            [sku |-> SkuOfKey(k), quantity |-> GetString(res, k)]]]
     /\ UNCHANGED <<totalStock, orders, res, cnt, ops, due>>

InitKeys ==
  /\ totalStock = InitialStock
  /\ orders = <<>>
  /\ res = <<>>
  /\ cnt = <<>>
  /\ due = {}
  /\ proc = [op |-> "none", user |-> <<>>, out |-> <<>>]
  /\ ops = 0

\* reserveStock calls, and getUserReservations calls on their results.
NextKeys ==
  \/ \E userId \in UserIdStrings, sku \in SkuStrings : KeyReserve(userId, sku)
  \/ \E userId \in UserIdStrings : KeyList(userId)
SpecKeys == InitKeys /\ [][NextKeys]_vars

\* C37  Key encoding round-trip: after reserveStock(userId, sku, q, ttl) with
\* a non-empty sku, the result of getUserReservations(userId) has an entry
\* whose sku is exactly the reserved sku, also when the sku contains ':', and
\* every entry of it comes from a key that a reserveStock of this user wrote.
C37_KeyRoundTrip ==
  proc.op = "getUserReservations" =>
    /\ \A made \in due :
         made[1] = proc.user =>
           \E k \in DOMAIN proc.out : proc.out[k].sku = made[2]
    /\ \A k \in DOMAIN proc.out :
         \E made \in due :
           made[1] = proc.user /\ getReservationKeyString(made[1], made[2]) = k

============================================================================
